---- MODULE Spec2Model ----
(***************************************************************************)
(* Display-buffer filters of src/filters.cc: colorize_regex,               *)
(* expand_tabulations, show_line_numbers and SelectionsHighlighter, run    *)
(* one loop iteration per step on a DisplayBuffer (a sequence of atoms).   *)
(*                                                                         *)
(* Buffer positions are 0 .. Len(text); the character at position p is     *)
(* text[p + 1].  Atom iterators are indices 1 .. Len(atoms) + 1, the last  *)
(* one being end().                                                        *)
(***************************************************************************)
EXTENDS Integers, Sequences, FiniteSets

VARIABLES
    text,        \* the buffer's characters around the window
    first_line,  \* index of the buffer line on which text starts
    sels,        \* m_window.selections(), as the highlighter last read them
    atoms,       \* the DisplayBuffer: its sequence of DisplayAtom
    before,      \* atoms as they were when the current filter was called
    pc,          \* "idle", the running filter, or "aborted"
    loc,         \* the running filter's local variables
    passes,      \* number of filter calls made on this display buffer
    fail         \* "none", or the assertion that stopped the pass

vars == <<text, first_line, sels, atoms, before, pc, loc, passes, fail>>

----------------------------------------------------------------------------
(* Bounds of the model *)

\* the pipeline of all four filters
MaxPasses == 2       \* filter calls on one display buffer
PipeLen == 2         \* characters of text
PipeSels == 1        \* selections of the window
\* colorize_regex alone
ColorLen == 4        \* characters of text
\* SelectionsHighlighter after colorize_regex
SelLen == 3          \* characters of text
SelSels == 2         \* selections of the window
\* expand_tabulations
TabLen == 3          \* characters of text in the window
\* show_line_numbers
LinesLen == 5        \* characters of text
\* the three filters that split, one after the other
SplitLen == 3        \* characters of text

(* Program constants *)

tabstop == 8
GutterBufSize == 6

Chars == {"a", "\t", "\n"}
Colors == {"Magenta", "Cyan"}
Underline == "Underline"
Bold == "Bold"

----------------------------------------------------------------------------
(* Buffer: characters, lines and columns *)

Min(a, b) == IF a < b THEN a ELSE b

CharAt(p) == text[p + 1]

\* Position of column 0 of the line holding position p.
RECURSIVE LineStart(_)
LineStart(p) ==
    IF p = 0 \/ CharAt(p - 1) = "\n" THEN p ELSE LineStart(p - 1)

\* Number of line breaks before position p.
RECURSIVE NewlinesBefore(_)
NewlinesBefore(p) ==
    IF p = 0 THEN 0
    ELSE NewlinesBefore(p - 1) + (IF CharAt(p - 1) = "\n" THEN 1 ELSE 0)

line_and_column_at(p) ==
    [line |-> first_line + NewlinesBefore(p), column |-> p - LineStart(p)]

\* Last position of the line that starts at position s (its line break, or
\* the last character of the buffer).
RECURSIVE LineLast(_)
LineLast(s) ==
    IF s >= Len(text) - 1 \/ CharAt(s) = "\n" THEN s ELSE LineLast(s + 1)

\* Position of column 0 of buffer line l.
LinePos(l) ==
    CHOOSE p \in 0 .. Len(text) :
        /\ p = LineStart(p)
        /\ first_line + NewlinesBefore(p) = l

iterator_at(coord) ==
    LET s == LinePos(coord.line)
    IN  Min(s + coord.column, LineLast(s))

----------------------------------------------------------------------------
(* DisplayAtom and DisplayBuffer *)

DisplayAtom(b, e, fg, bg) ==
    [begin |-> b, end |-> e, fg_color |-> fg, bg_color |-> bg,
     attribute |-> {}, replaced |-> FALSE, content |-> <<>>]

splitable(atom) == atom.begin # atom.end

End(as) == Len(as) + 1

\* First atom from start on whose range holds position where, else end().
atom_containing(as, where, start) ==
    LET hits == {j \in start .. Len(as) :
                    as[j].begin <= where /\ where < as[j].end}
    IN  IF hits = {} THEN End(as)
        ELSE CHOOSE j \in hits : \A k \in hits : j <= k

CanSplit(as, i, pos) ==
    /\ i \in 1 .. Len(as)
    /\ splitable(as[i])
    /\ as[i].begin < pos
    /\ pos < as[i].end

\* The atom at i becomes [begin, pos) followed by [pos, end).
SplitAtoms(as, i, pos) ==
    SubSeq(as, 1, i - 1)
        \o <<[as[i] EXCEPT !.end = pos], [as[i] EXCEPT !.begin = pos]>>
        \o SubSeq(as, i + 1, Len(as))

\* split handing back the iterator of [pos, end).
SplitItRight(i) == i + 1

\* split hands back the iterator of the inserted atom, [begin, pos): its
\* callers step over it with ++ to reach [pos, end).
SplitIt(i) == i

\* A cursor is [atoms, it, fail]: the buffer, an iterator into it and
\* whether an assertion has stopped the pass.
Cursor(as, i) == [atoms |-> as, it |-> i, fail |-> "none"]

split(cur, pos) ==
    IF cur.fail # "none" THEN cur
    ELSE IF ~CanSplit(cur.atoms, cur.it, pos)
    THEN [cur EXCEPT !.fail = "split"]
    ELSE [cur EXCEPT !.atoms = SplitAtoms(cur.atoms, cur.it, pos),
                     !.it = SplitIt(cur.it)]

\* ++it
Incr(cur) ==
    IF cur.fail # "none" THEN cur ELSE [cur EXCEPT !.it = @ + 1]

insert(as, i, atom) ==
    SubSeq(as, 1, i - 1) \o <<atom>> \o SubSeq(as, i, Len(as))

replace_atom_content(as, i, str) ==
    [as EXCEPT ![i].replaced = TRUE, ![i].content = str]

display_begin == atoms[1].begin
display_end == atoms[Len(atoms)].end

----------------------------------------------------------------------------
(* Locals of the running filter; the fields a filter does not use stay at   *)
(* the values below.                                                        *)

NoLoc ==
    [filter |-> "none", matches |-> <<>>, mi |-> 0, color |-> "Default",
     atom_it |-> 0, it |-> 0, line |-> 0, column |-> 0, last_line |-> 0,
     sorted |-> <<>>, sel_it |-> 0]

Idle == pc = "idle" /\ fail = "none"

\* A filter is called: the pipeline runs its filters one after the other,
\* at most MaxPasses of them where the calls are counted.
Call(name, counted) ==
    /\ Idle
    /\ counted => passes < MaxPasses
    /\ passes' = IF counted THEN passes + 1 ELSE passes
    /\ before' = atoms
    /\ pc' = name
    /\ UNCHANGED <<text, first_line>>

\* A loop iteration ends with the cursor cur: the pass goes on, or it stops
\* on the assertion the iteration ran into.
Continue(cur) ==
    /\ atoms' = cur.atoms
    /\ fail' = cur.fail
    /\ pc' = IF cur.fail = "none" THEN pc ELSE "aborted"
    /\ UNCHANGED <<text, first_line, sels, before, passes>>

\* The filter returns; its locals are gone.
Return ==
    /\ pc' = "idle"
    /\ loc' = NoLoc
    /\ before' = atoms
    /\ UNCHANGED <<text, first_line, sels, atoms, passes, fail>>

----------------------------------------------------------------------------
(* colorize_regex *)

Ranges(lo, hi) ==
    {[begin |-> b, end |-> e] : b \in lo .. hi, e \in lo .. hi}

\* What the regex iterator can produce over [lo, hi): ordered,
\* non-overlapping, non-empty matches.
RECURSIVE MatchLists(_, _)
MatchLists(lo, hi) ==
    {<<>>} \cup UNION {
        {<<r>> \o rest : rest \in MatchLists(r.end, hi)}
        : r \in {q \in Ranges(lo, hi) : q.begin < q.end}}

ColorizeCall(counted, colors) ==
    /\ Call("colorize_regex", counted)
    /\ \E ms \in MatchLists(display_begin, display_end), c \in colors :
          loc' = [NoLoc EXCEPT !.filter = "colorize_regex", !.matches = ms,
                               !.mi = 1, !.color = c, !.atom_it = 1]
    /\ UNCHANGED <<sels, atoms, fail>>

\* colorize_regex without its test begin_atom_it == end_atom_it.
ColorizeMatchUntested(as, hint, begin, end, color) ==
    LET begin_atom_it == atom_containing(as, begin, hint)
        c0 == Cursor(as, begin_atom_it)
        c1 == IF as[begin_atom_it].begin # begin
              THEN Incr(split(c0, begin)) ELSE c0
        c2 == IF c1.fail = "none" /\ c1.atoms[c1.it].end # end
              THEN split(c1, end) ELSE c1
    IN  IF c2.fail # "none" THEN c2
        ELSE [c2 EXCEPT !.atoms[c2.it].fg_color = color]

\* The body of the for loop for the match [begin, end): the cursor it leaves,
\* whose iterator is begin_atom_it.
ColorizeMatch(as, hint, begin, end, color) ==
    LET begin_atom_it == atom_containing(as, begin, hint)
        end_atom_it == atom_containing(as, end, hint)
        c0 == Cursor(as, begin_atom_it)
    IN  IF begin_atom_it # end_atom_it THEN c0
        ELSE IF begin_atom_it = End(as) THEN [c0 EXCEPT !.fail = "deref"]
        ELSE
            LET c1 == IF as[begin_atom_it].begin # begin
                      THEN Incr(split(c0, begin)) ELSE c0
                c2 == IF c1.fail = "none" /\ c1.atoms[c1.it].end # end
                      THEN split(c1, end) ELSE c1
            IN  IF c2.fail # "none" THEN c2
                ELSE [c2 EXCEPT !.atoms[c2.it].fg_color = color]

ColorizeStep ==
    /\ pc = "colorize_regex"
    /\ loc.mi <= Len(loc.matches)
    /\ LET m == loc.matches[loc.mi]
           cur == ColorizeMatch(atoms, loc.atom_it, m.begin, m.end, loc.color)
       IN  /\ Continue(cur)
           /\ loc' = [loc EXCEPT !.mi = @ + 1, !.atom_it = cur.it]

\* The loop of colorize_regex is over.
ColorizeDone == pc = "colorize_regex" /\ loc.mi > Len(loc.matches)

ColorizeReturn == ColorizeDone /\ Return

----------------------------------------------------------------------------
(* expand_tabulations *)

Spaces(n) == [i \in 1 .. n |-> " "]

\* The replay with an earlier tab counted as one column.
RECURSIVE ReplayColumnPlain(_, _, _)
ReplayColumnPlain(line_it, it, column) ==
    IF line_it = it THEN column
    ELSE ReplayColumnPlain(line_it + 1, it, column + 1)

\* The visual column of position it, replayed from line_it at column.
RECURSIVE ReplayColumn(_, _, _)
ReplayColumn(line_it, it, column) ==
    IF line_it = it THEN column
    ELSE ReplayColumn(line_it + 1, it,
                      IF CharAt(line_it) = "\t"
                      THEN column + (tabstop - (column % tabstop))
                      ELSE column + 1)

TabCount(it) ==
    LET pos == line_and_column_at(it)
        column == ReplayColumn(iterator_at([line |-> pos.line, column |-> 0]),
                               it, 0)
    IN  tabstop - (column % tabstop)

\* The body of the inner loop at a tab without its tests of the atom's begin
\* and end: both splits are made whatever the tab's place in the atom.
ExpandTabUntested(as, atom_it, it) ==
    LET c2 == split(Incr(split(Cursor(as, atom_it), it)), it + 1)
    IN  IF c2.fail # "none" THEN c2
        ELSE [c2 EXCEPT !.atoms =
                 replace_atom_content(c2.atoms, c2.it, Spaces(TabCount(it)))]

\* The body of the inner loop at a tab without its splits: the content goes
\* to the atom as it is.
ExpandTabWhole(as, atom_it, it) ==
    [Cursor(as, atom_it) EXCEPT !.atoms =
        replace_atom_content(as, atom_it, Spaces(TabCount(it)))]

\* The body of the inner loop at a tab with the spaces put after the content
\* the atom has.
ExpandTabAppending(as, atom_it, it) ==
    LET c0 == Cursor(as, atom_it)
        c1 == IF it # as[atom_it].begin THEN Incr(split(c0, it)) ELSE c0
        c2 == IF c1.fail = "none" /\ it + 1 # c1.atoms[c1.it].end
              THEN split(c1, it + 1) ELSE c1
    IN  IF c2.fail # "none" THEN c2
        ELSE [c2 EXCEPT !.atoms =
                 replace_atom_content(
                     c2.atoms, c2.it,
                     c2.atoms[c2.it].content \o Spaces(TabCount(it)))]

\* The body of the inner loop at a tab: the cursor it leaves, whose iterator
\* is the atom of the tab.
ExpandTab(as, atom_it, it) ==
    LET c0 == Cursor(as, atom_it)
        c1 == IF it # as[atom_it].begin THEN Incr(split(c0, it)) ELSE c0
        c2 == IF c1.fail = "none" /\ it + 1 # c1.atoms[c1.it].end
              THEN split(c1, it + 1) ELSE c1
    IN  IF c2.fail # "none" THEN c2
        ELSE [c2 EXCEPT !.atoms =
                 replace_atom_content(c2.atoms, c2.it, Spaces(TabCount(it)))]

TabsCall(counted) ==
    /\ Call("expand_tabulations", counted)
    /\ loc' = [NoLoc EXCEPT !.filter = "expand_tabulations", !.atom_it = 1,
                            !.it = atoms[1].begin]
    /\ UNCHANGED <<sels, atoms, fail>>

\* One turn of the inner loop: the character at it.
TabsChar ==
    /\ pc = "expand_tabulations"
    /\ loc.atom_it # End(atoms)
    /\ loc.it # atoms[loc.atom_it].end
    /\ LET cur == IF CharAt(loc.it) = "\t"
                  THEN ExpandTab(atoms, loc.atom_it, loc.it)
                  ELSE Cursor(atoms, loc.atom_it)
       IN  /\ Continue(cur)
           /\ loc' = [loc EXCEPT !.atom_it = cur.it, !.it = @ + 1]

\* The inner loop is over: ++atom_it, and the next atom's first character.
TabsNextAtom ==
    /\ pc = "expand_tabulations"
    /\ loc.atom_it # End(atoms)
    /\ loc.it = atoms[loc.atom_it].end
    /\ loc' = [loc EXCEPT !.atom_it = @ + 1,
                          !.it = IF loc.atom_it + 1 = End(atoms) THEN loc.it
                                 ELSE atoms[loc.atom_it + 1].begin]
    /\ UNCHANGED <<text, first_line, sels, atoms, before, pc, passes, fail>>

TabsDone == pc = "expand_tabulations" /\ loc.atom_it = End(atoms)

TabsReturn == TabsDone /\ Return

----------------------------------------------------------------------------
(* show_line_numbers *)

DigitChars == <<"0", "1", "2", "3", "4", "5", "6", "7", "8", "9">>

\* %d of a number >= 0
RECURSIVE Decimal(_)
Decimal(n) ==
    IF n < 10 THEN <<DigitChars[n + 1]>>
    ELSE Decimal(n \div 10) \o <<DigitChars[(n % 10) + 1]>>

\* The formatted number whatever the size of buffer.
snprintfUnbounded(size, n) ==
    LET d == Decimal(n)
    IN  (IF Len(d) < 3 THEN Spaces(3 - Len(d)) \o d ELSE d) \o <<" ">>

\* snprintf(buffer, size, "%3d ", n): the string left in buffer.
snprintf(size, n) ==
    LET d == Decimal(n)
        field == IF Len(d) < 3 THEN Spaces(3 - Len(d)) \o d ELSE d
        out == field \o <<" ">>
    IN  SubSeq(out, 1, Min(Len(out), size - 1))

\* A gutter atom that takes the range of the atom it is put before.
GutterAtomWide(at) == DisplayAtom(at.begin, at.end, "Black", "White")

\* The atom put before the atom at: zero-width, in the gutter's colours.
GutterAtom(at) == DisplayAtom(at.begin, at.begin, "Black", "White")

\* The body of the for loop for the line of coord.
NumberLine(as, coord) ==
    LET line_start == iterator_at(coord)
        found == atom_containing(as, line_start, 1)
        c0 == Cursor(as, found)
    IN  IF found = End(as) THEN c0
        ELSE IF as[found].begin # line_start /\ ~splitable(as[found]) THEN c0
        ELSE
            LET c1 == IF as[found].begin # line_start
                      THEN Incr(split(c0, line_start)) ELSE c0
            IN  IF c1.fail # "none" THEN c1
                ELSE
                    [c1 EXCEPT !.atoms =
                        replace_atom_content(
                            insert(c1.atoms, c1.it,
                                   GutterAtom(c1.atoms[c1.it])),
                            c1.it, snprintf(GutterBufSize, coord.line + 1))]

LinesCall(counted) ==
    /\ Call("show_line_numbers", counted)
    /\ LET coord == line_and_column_at(display_begin)
       IN  loc' = [NoLoc EXCEPT
                      !.filter = "show_line_numbers",
                      !.line = coord.line, !.column = coord.column,
                      !.last_line = line_and_column_at(display_end - 1).line]
    /\ UNCHANGED <<sels, atoms, fail>>

LinesStep ==
    /\ pc = "show_line_numbers"
    /\ loc.line <= loc.last_line
    /\ Continue(NumberLine(atoms,
                           [line |-> loc.line, column |-> loc.column]))
    /\ loc' = [loc EXCEPT !.line = @ + 1]

LinesDone == pc = "show_line_numbers" /\ loc.line > loc.last_line

LinesReturn == LinesDone /\ Return

----------------------------------------------------------------------------
(* SelectionsHighlighter::operator() *)

\* What std::sort can leave: the selections in an order of ascending begin.
Sorted(sl) ==
    {s \in [1 .. Len(sl) -> {sl[i] : i \in 1 .. Len(sl)}] :
        /\ \E f \in [1 .. Len(sl) -> 1 .. Len(sl)] :
              /\ \A i, j \in 1 .. Len(sl) : i # j => f[i] # f[j]
              /\ \A i \in 1 .. Len(sl) : s[i] = sl[f[i]]
        /\ \A i \in 1 .. Len(sl) - 1 : s[i].begin <= s[i + 1].begin}

\* attribute() = Attributes::Underline on the cursor's atom
SetUnderlineOnly(cur) ==
    IF cur.fail # "none" THEN cur
    ELSE [cur EXCEPT !.atoms[cur.it].attribute = {Underline}]

\* attribute() |= Attributes::Underline on the cursor's atom
SetUnderline(cur) ==
    IF cur.fail # "none" THEN cur
    ELSE [cur EXCEPT !.atoms[cur.it].attribute = @ \cup {Underline}]

\* [###------]: the atom begins inside the selection and ends after it.
StartsInside(c0, sel) == Incr(SetUnderline(split(c0, sel.end)))

\* [---###---]: the selection lies strictly inside the atom.
Surrounds(c0, sel) ==
    Incr(SetUnderline(split(Incr(split(c0, sel.begin)), sel.end)))

\* [------###] with the atom's iterator left on the part before the selection.
EndsInsideNoStep(c0, sel) == Incr(SetUnderline(split(c0, sel.begin)))

\* [------###]: the atom begins before the selection and ends inside it.
EndsInside(c0, sel) == Incr(SetUnderline(Incr(split(c0, sel.begin))))

\* [#########] with the atom's iterator left where it is.
InsideNoStep(c0, sel) == SetUnderline(c0)

\* [#########]: the atom lies inside the selection.
Inside(c0, sel) == Incr(SetUnderline(c0))

\* The turn of the while loop without its last test, atom.end() <=
\* sel.begin().
HighlightAtomFiveCases(as, atom_it, sel) ==
    LET atom == as[atom_it]
        c0 == Cursor(as, atom_it)
    IN  IF atom.begin >= sel.begin /\ atom.begin < sel.end
           /\ atom.end > sel.end
        THEN [cur |-> StartsInside(c0, sel), next_sel |-> TRUE]
        ELSE IF atom.begin < sel.begin /\ atom.end > sel.end
        THEN [cur |-> Surrounds(c0, sel), next_sel |-> TRUE]
        ELSE IF atom.begin < sel.begin /\ atom.end > sel.begin
        THEN [cur |-> EndsInside(c0, sel), next_sel |-> FALSE]
        ELSE IF atom.begin >= sel.begin /\ atom.end <= sel.end
        THEN [cur |-> Inside(c0, sel), next_sel |-> FALSE]
        ELSE IF atom.begin >= sel.end
        THEN [cur |-> c0, next_sel |-> TRUE]
        ELSE [cur |-> [c0 EXCEPT !.fail = "assert"], next_sel |-> FALSE]

\* One turn of the while loop: the cursor it leaves and whether it moves on
\* to the next selection.
HighlightAtom(as, atom_it, sel) ==
    LET atom == as[atom_it]
        c0 == Cursor(as, atom_it)
    IN  IF atom.begin >= sel.begin /\ atom.begin < sel.end
           /\ atom.end > sel.end
        THEN [cur |-> StartsInside(c0, sel), next_sel |-> TRUE]
        ELSE IF atom.begin < sel.begin /\ atom.end > sel.end
        THEN [cur |-> Surrounds(c0, sel), next_sel |-> TRUE]
        ELSE IF atom.begin < sel.begin /\ atom.end > sel.begin
        THEN [cur |-> EndsInside(c0, sel), next_sel |-> FALSE]
        ELSE IF atom.begin >= sel.begin /\ atom.end <= sel.end
        THEN [cur |-> Inside(c0, sel), next_sel |-> FALSE]
        ELSE IF atom.begin >= sel.end
        THEN [cur |-> c0, next_sel |-> TRUE]
        ELSE IF atom.end <= sel.begin
        THEN [cur |-> Incr(c0), next_sel |-> FALSE]
        ELSE [cur |-> [c0 EXCEPT !.fail = "assert"], next_sel |-> FALSE]

\* The highlighter is called while the window's selections are one of lists.
HighlightCall(counted, lists) ==
    /\ Call("highlight_selections", counted)
    /\ \E sl \in lists :
          /\ sels' = sl
          /\ \E s \in Sorted(sl) :
                loc' = [NoLoc EXCEPT !.filter = "highlight_selections",
                                     !.sorted = s, !.atom_it = 1, !.sel_it = 1]
    /\ UNCHANGED <<atoms, fail>>

HighlightStep ==
    /\ pc = "highlight_selections"
    /\ loc.atom_it # End(atoms)
    /\ loc.sel_it <= Len(loc.sorted)
    /\ LET r == HighlightAtom(atoms, loc.atom_it, loc.sorted[loc.sel_it])
       IN  /\ Continue(r.cur)
           /\ loc' = [loc EXCEPT
                          !.atom_it = r.cur.it,
                          !.sel_it = IF r.next_sel /\ r.cur.fail = "none"
                                     THEN @ + 1 ELSE @]

HighlightDone ==
    /\ pc = "highlight_selections"
    /\ loc.atom_it = End(atoms) \/ loc.sel_it > Len(loc.sorted)

HighlightReturn == HighlightDone /\ Return

----------------------------------------------------------------------------
(* Initial states: a freshly built display buffer, one atom over the window *)

TextsOf(chars, n) == UNION {[1 .. k -> chars] : k \in 1 .. n}

Texts(n) == TextsOf(Chars, n)

\* Lines before the text, chosen so that the numbers of the gutter have one
\* to six digits.
FirstLines == {0, 8, 98, 998, 9998, 99998}

\* Lists of at most n selections within 0 .. hi, one list for each
\* collection: the order of a list plays no part once it is sorted, but for
\* selections of the same begin, which Sorted puts in either order.
SelLists(n, hi) ==
    UNION {
        {sl \in [1 .. k -> {r \in Ranges(0, hi) : r.begin <= r.end}] :
            \A i \in 1 .. k - 1 :
                \/ sl[i].begin < sl[i + 1].begin
                \/ sl[i].begin = sl[i + 1].begin /\ sl[i].end <= sl[i + 1].end}
        : k \in 0 .. n}

InitWith(txt, line0, sl, start, attr) ==
    /\ text = txt
    /\ first_line = line0
    /\ sels = sl
    /\ atoms = <<[DisplayAtom(start, Len(txt), "Default", "Default")
                     EXCEPT !.attribute = attr]>>
    /\ before = atoms
    /\ pc = "idle"
    /\ loc = NoLoc
    /\ passes = 0
    /\ fail = "none"

Plain(n) == [i \in 1 .. n |-> "a"]

\* Colouring alone: the characters and the selections play no part.
InitColor ==
    \E start \in 0 .. ColorLen - 1 :
        InitWith(Plain(ColorLen), 0, <<>>, start, {})

NextColor ==
    ColorizeCall(FALSE, Colors) \/ ColorizeStep \/ ColorizeReturn

SpecColor == InitColor /\ [][NextColor]_vars

\* Selections that stay as they are while the display buffer lives, over a
\* buffer that colorize_regex may have fragmented.
InitSel ==
    \E start \in 0 .. SelLen - 1, sl \in SelLists(SelSels, SelLen) :
        InitWith(Plain(SelLen), 0, sl, start, {})

NextSel ==
    \/ ColorizeCall(FALSE, {"Cyan"}) \/ ColorizeStep \/ ColorizeReturn
    \/ HighlightCall(FALSE, {sels}) \/ HighlightStep \/ HighlightReturn

SpecSel == InitSel /\ [][NextSel]_vars

\* Tabs in a window that begins up to tabstop - 1 plain characters into its
\* first line; show_line_numbers runs MaxPasses times at most.
InitTabs ==
    \E k \in 0 .. tabstop - 1, body \in Texts(TabLen) :
        InitWith(Plain(k) \o body, 0, <<>>, k, {})

NextTabs ==
    \/ ColorizeCall(FALSE, {"Cyan"}) \/ ColorizeStep \/ ColorizeReturn
    \/ TabsCall(FALSE) \/ TabsChar \/ TabsNextAtom \/ TabsReturn
    \/ LinesCall(TRUE) \/ LinesStep \/ LinesReturn

SpecTabs == InitTabs /\ [][NextTabs]_vars

\* Line numbers anywhere in a long buffer; show_line_numbers runs MaxPasses
\* times at most.
InitLines ==
    \E txt \in TextsOf({"a", "\n"}, LinesLen), start \in 0 .. LinesLen - 1,
       line0 \in FirstLines :
        /\ start < Len(txt)
        /\ InitWith(txt, line0, <<>>, start, {})

NextLines == LinesCall(TRUE) \/ LinesStep \/ LinesReturn

SpecLines == InitLines /\ [][NextLines]_vars

\* The filters that use the iterator split returns, called in any order any
\* number of times, with selections that stay as they are.
InitSplit ==
    \E txt \in TextsOf({"a", "\t"}, SplitLen), start \in 0 .. SplitLen - 1,
       sl \in SelLists(1, SplitLen) :
        /\ start < Len(txt)
        /\ \A i \in 1 .. Len(sl) : sl[i].end <= Len(txt)
        /\ InitWith(txt, 0, sl, start, {})

NextSplit ==
    \/ ColorizeCall(FALSE, {"Cyan"}) \/ ColorizeStep \/ ColorizeReturn
    \/ TabsCall(FALSE) \/ TabsChar \/ TabsNextAtom \/ TabsReturn
    \/ HighlightCall(FALSE, {sels}) \/ HighlightStep \/ HighlightReturn

SpecSplit == InitSplit /\ [][NextSplit]_vars

\* The whole pipeline on short buffers; the highlighter reads the selections
\* the window has when it is called.
Init ==
    \E txt \in Texts(PipeLen), start \in 0 .. PipeLen - 1,
       attr \in {{}, {Bold}} :
        /\ start < Len(txt)
        /\ InitWith(txt, 0, <<>>, start, attr)

Next ==
    \/ ColorizeCall(TRUE, {"Cyan"}) \/ ColorizeStep \/ ColorizeReturn
    \/ TabsCall(TRUE) \/ TabsChar \/ TabsNextAtom \/ TabsReturn
    \/ LinesCall(TRUE) \/ LinesStep \/ LinesReturn
    \/ HighlightCall(TRUE, SelLists(PipeSels, Len(text)))
    \/ HighlightStep \/ HighlightReturn

Spec == Init /\ [][Next]_vars

\* A filter that has been called runs on: the code is single-threaded and
\* nothing suspends it, so the step of the running filter that can be taken
\* is taken.
Running ==
    \/ ColorizeStep \/ ColorizeReturn
    \/ TabsChar \/ TabsNextAtom \/ TabsReturn
    \/ LinesStep \/ LinesReturn
    \/ HighlightStep \/ HighlightReturn

SpecLive == Init /\ [][Next]_vars /\ WF_vars(Running)

----------------------------------------------------------------------------
(* The partition *)

\* The atoms with a range of characters, in order.
Real(as) == SelectSeq(as, LAMBDA a : a.begin < a.end)

\* The buffer positions the atoms of as cover.
Covered(as) ==
    UNION {as[j].begin .. as[j].end - 1 : j \in 1 .. Len(as)}

\* Ordered by begin; the real atoms follow one another with no gap and no
\* overlap; a zero-width atom sits at the begin of the atom after it.
WellFormed(as) ==
    /\ \A j \in 1 .. Len(as) : as[j].begin <= as[j].end
    /\ \A j \in 1 .. Len(as) - 1 : as[j].begin <= as[j + 1].begin
    /\ \A k \in 1 .. Len(Real(as)) - 1 :
          Real(as)[k].end = Real(as)[k + 1].begin
    /\ \A j \in 1 .. Len(as) :
          as[j].begin = as[j].end =>
              j < Len(as) /\ as[j + 1].begin = as[j].begin

\* C1: whatever filters have run and however far the running one has got,
\* the atoms are ordered, the real atoms are gap-free and do not overlap, and
\* they cover the positions they covered when the filter was called.
C1_Partition ==
    /\ WellFormed(atoms)
    /\ Covered(atoms) = Covered(before)

\* SelectionsHighlighter has split an atom of a buffer that holds a gutter
\* atom put there by show_line_numbers.
C1_Witness ==
    /\ HighlightDone
    /\ Len(atoms) > Len(before)
    /\ \E j \in 1 .. Len(atoms) : atoms[j].begin = atoms[j].end
    /\ \E j \in 1 .. Len(atoms) : Underline \in atoms[j].attribute

----------------------------------------------------------------------------
(* Properties of colorize_regex *)

\* The display buffer as it is built: one atom in the default colours.
Fresh(as) ==
    /\ Len(as) = 1
    /\ as[1].fg_color = "Default"
    /\ ~as[1].replaced

\* Some atom is exactly the range m and has the foreground c.
Painted(as, m, c) ==
    \E j \in 1 .. Len(as) :
        as[j].begin = m.begin /\ as[j].end = m.end /\ as[j].fg_color = c

\* The range m lies within one atom of as.
WithinOneAtom(as, m) ==
    \E j \in 1 .. Len(as) : as[j].begin <= m.begin /\ m.end <= as[j].end

\* C3: after one call of colorize_regex on a freshly built display buffer,
\* every match of the call is an atom of exactly its range with the colour as
\* foreground, a match ending at the end of the display buffer included.
C3_EveryMatchPainted ==
    (ColorizeDone /\ Fresh(before)) =>
        \A i \in 1 .. Len(loc.matches) :
            Painted(atoms, loc.matches[i], loc.color)

\* C4: after a call of colorize_regex on a buffer that earlier calls have
\* fragmented, every match that lay within one atom when the call began
\* (sharing the atom's begin, its end, or both) is an atom of exactly its
\* range with the later colour as foreground.
C4_ContainedMatchRepainted ==
    (ColorizeDone /\ Len(before) > 1) =>
        \A i \in 1 .. Len(loc.matches) :
            WithinOneAtom(before, loc.matches[i]) =>
                Painted(atoms, loc.matches[i], loc.color)

\* The match now handled by the for loop begins and ends in different atoms.
Straddling ==
    /\ pc = "colorize_regex"
    /\ loc.mi <= Len(loc.matches)
    /\ atom_containing(atoms, loc.matches[loc.mi].begin, loc.atom_it)
         # atom_containing(atoms, loc.matches[loc.mi].end, loc.atom_it)

\* C5: the iteration for a match whose begin and end lie in different atoms
\* changes no atom, trips no assertion and moves on to the next match, and
\* the hint it leaves finds the atoms of every later match as a scan from
\* the first atom does.
C5_StraddleSkipped ==
    [][Straddling =>
        /\ atoms' = atoms
        /\ fail' = "none"
        /\ pc' = "colorize_regex"
        /\ loc'.mi = loc.mi + 1
        /\ \A j \in loc'.mi .. Len(loc.matches) :
              /\ atom_containing(atoms', loc.matches[j].begin, loc'.atom_it)
                   = atom_containing(atoms', loc.matches[j].begin, 1)
              /\ atom_containing(atoms', loc.matches[j].end, loc'.atom_it)
                   = atom_containing(atoms', loc.matches[j].end, 1)]_vars

\* A first match lying across an atom boundary was passed over and the
\* match after it was painted.
C5_Witness ==
    /\ ColorizeDone
    /\ Len(loc.matches) = 2
    /\ before[atom_containing(before, loc.matches[1].begin, 1)].end
         < loc.matches[1].end
    /\ atoms # before
    /\ Painted(atoms, loc.matches[2], loc.color)

----------------------------------------------------------------------------
(* Properties of SelectionsHighlighter *)

\* Position p lies in an atom that carries Underline.
Underlined(as, p) ==
    \E j \in 1 .. Len(as) :
        /\ as[j].begin <= p /\ p < as[j].end
        /\ Underline \in as[j].attribute

Selected(sl, p) ==
    \E i \in 1 .. Len(sl) : sl[i].begin <= p /\ p < sl[i].end

NonEmpty(sl) == \A i \in 1 .. Len(sl) : sl[i].begin < sl[i].end

RangesOf(as) == [j \in 1 .. Len(as) |-> <<as[j].begin, as[j].end>>]

\* C2: when SelectionsHighlighter has run over real atoms with non-empty
\* selections, a covered position lies in an underlined atom exactly when it
\* lies in a selection; a single atom with one selection strictly inside it
\* becomes the three atoms before, in and after the selection.
C2_UnderlineExact ==
    (HighlightDone /\ NonEmpty(sels) /\ Real(before) = before) =>
        /\ \A p \in Covered(before) :
              Underlined(atoms, p) <=> Selected(sels, p)
        /\ \A b, e \in 0 .. Len(text) :
              ( /\ Len(before) = 1
                /\ sels = <<[begin |-> b, end |-> e]>>
                /\ before[1].begin < b /\ e < before[1].end )
              => RangesOf(atoms) =
                    <<<<before[1].begin, b>>, <<b, e>>, <<e, before[1].end>>>>

\* Two overlapping selections of the same begin were swept over several
\* atoms, one of which was split.
C2_Witness ==
    /\ HighlightDone
    /\ Len(sels) = 2
    /\ sels[1].begin = sels[2].begin
    /\ sels[1].begin < sels[1].end
    /\ sels[1].end < sels[2].end
    /\ Len(before) > 1
    /\ Len(atoms) > Len(before)
    /\ \E p, q \in Covered(atoms) :
          Underlined(atoms, p) /\ ~Underlined(atoms, q)

\* The atoms a and b differ at most in their ranges and in a's having
\* Underline where b has not.
SameBut(a, b) ==
    /\ a.fg_color = b.fg_color
    /\ a.bg_color = b.bg_color
    /\ a.replaced = b.replaced
    /\ a.content = b.content
    /\ b.attribute \subseteq a.attribute
    /\ a.attribute \ {Underline} = b.attribute \ {Underline}

ZeroWidth(as) == SelectSeq(as, LAMBDA a : a.begin = a.end)

\* C9: while SelectionsHighlighter runs and when it is done, every covered
\* position has the colours and the attribute bits other than Underline it
\* had when the filter was called, no bit is cleared, and the zero-width
\* atoms are the ones there were, at the same positions.
C9_HighlightFrame ==
    loc.filter = "highlight_selections" =>
        /\ \A p \in Covered(before) :
              SameBut(atoms[atom_containing(atoms, p, 1)],
                      before[atom_containing(before, p, 1)])
        /\ Len(ZeroWidth(atoms)) = Len(ZeroWidth(before))
        /\ \A k \in 1 .. Len(ZeroWidth(before)) :
              /\ ZeroWidth(atoms)[k].begin = ZeroWidth(before)[k].begin
              /\ SameBut(ZeroWidth(atoms)[k], ZeroWidth(before)[k])

\* The highlighter has split and underlined a bold atom of a buffer that
\* holds a gutter atom.
C9_Witness ==
    /\ HighlightDone
    /\ Len(atoms) > Len(before)
    /\ \E j \in 1 .. Len(atoms) : atoms[j].attribute = {Bold, Underline}
    /\ \E j \in 1 .. Len(atoms) : atoms[j].attribute = {Bold}
    /\ ZeroWidth(atoms) # <<>>

----------------------------------------------------------------------------
(* Properties of expand_tabulations *)

\* The visual column of position p: 0 at the start of its line, one more
\* than that of the character before it, or the next multiple of tabstop
\* when that character is a tab.
RECURSIVE VisualColumn(_)
VisualColumn(p) ==
    IF p = 0 \/ CharAt(p - 1) = "\n" THEN 0
    ELSE IF CharAt(p - 1) = "\t"
    THEN ((VisualColumn(p - 1) \div tabstop) + 1) * tabstop
    ELSE VisualColumn(p - 1) + 1

HoldsTab(atom) == \E p \in atom.begin .. atom.end - 1 : CharAt(p) = "\t"

\* The tab at p is alone in an atom rendered as n spaces.
TabShown(as, p, n) ==
    \E j \in 1 .. Len(as) :
        /\ as[j].begin = p /\ as[j].end = p + 1
        /\ as[j].replaced
        /\ as[j].content = Spaces(n)

\* C6: when expand_tabulations has run, every tab of the window is alone in
\* an atom rendered as the 1 to 8 spaces that lead from its visual column to
\* the next multiple of 8 (7 and 7 spaces for "a\ta\t"), and the
\* atoms that hold no tab have the content override they had before.
C6_TabsExpanded ==
    TabsDone =>
        /\ \A p \in Covered(before) :
              CharAt(p) = "\t" =>
                  \E n \in 1 .. 8 :
                      /\ (VisualColumn(p) + n) % 8 = 0
                      /\ TabShown(atoms, p, n)
        /\ text = <<"a", "\t", "a", "\t">> /\ display_begin <= 1 =>
              TabShown(atoms, 1, 7) /\ TabShown(atoms, 3, 7)
        /\ ZeroWidth(atoms) = ZeroWidth(before)
        /\ \A j \in 1 .. Len(atoms) :
              (atoms[j].begin < atoms[j].end /\ ~HoldsTab(atoms[j])) =>
                  LET old == before[atom_containing(before, atoms[j].begin, 1)]
                  IN  /\ atoms[j].replaced = old.replaced
                      /\ atoms[j].content = old.content

\* A tab that follows an earlier tab of its line, past column 8, was cut out
\* of a longer atom.
C6_Witness ==
    /\ TabsDone
    /\ Len(atoms) > Len(before) + 1
    /\ \E p \in Covered(before) :
          /\ CharAt(p) = "\t"
          /\ VisualColumn(p) > 8
          /\ VisualColumn(p) % 8 # 0
          /\ \E q \in LineStart(p) .. p - 1 : CharAt(q) = "\t"

----------------------------------------------------------------------------
(* Properties of show_line_numbers *)

LineOf(p) == line_and_column_at(p).line

\* The iterators of the gutter atoms of buffer line l.
Gutters(as, l) ==
    {j \in 1 .. Len(as) : as[j].begin = as[j].end /\ LineOf(as[j].begin) = l}

\* The lines the display buffer covers.
CoveredLines(as) ==
    LineOf(as[1].begin) .. LineOf(as[Len(as)].end - 1)

\* Where the window's part of line l begins.
CoveredLineStart(as, l) ==
    IF l = LineOf(as[1].begin) THEN as[1].begin ELSE LinePos(l)

\* C7: when show_line_numbers has run over real atoms, every covered line
\* has one gutter atom, right before a real atom that begins where the line
\* begins (column 0, for every line after the first).
C7_GutterAtLineStart ==
    (LinesDone /\ Real(before) = before) =>
        \A l \in CoveredLines(before) :
            /\ Cardinality(Gutters(atoms, l)) = 1
            /\ \A j \in Gutters(atoms, l) :
                  /\ atoms[j].begin = CoveredLineStart(before, l)
                  /\ j < Len(atoms)
                  /\ atoms[j + 1].begin = atoms[j].begin
                  /\ atoms[j + 1].begin < atoms[j + 1].end

\* C8: however many times show_line_numbers has run, no covered line has
\* more than one gutter atom.
C8_OneGutterPerLine ==
    \A l \in CoveredLines(atoms) : Cardinality(Gutters(atoms, l)) <= 1

\* Digit k (0 for the units) of n.
RECURSIVE Pow10(_)
Pow10(k) == IF k = 0 THEN 1 ELSE 10 * Pow10(k - 1)

Digit(n, k) == DigitChars[((n \div Pow10(k)) % 10) + 1]

\* The number of digits of n >= 1.
Width(n) == CHOOSE w \in 1 .. 10 : Pow10(w - 1) <= n /\ n < Pow10(w)

\* The 1-based number of the line of a gutter atom.
GutterNumber(atom) == LineOf(atom.begin) + 1

IsGutter(atom) == atom.begin = atom.end /\ atom.replaced

\* C10 as claimed: the content of every gutter atom is four characters, the
\* line number right-aligned in three columns and one space.
C10_FourCharacters ==
    \A j \in 1 .. Len(atoms) :
        IsGutter(atoms[j]) =>
            LET n == GutterNumber(atoms[j])
                c == atoms[j].content
            IN  /\ Len(c) = 4
                /\ c[4] = " "
                /\ \A k \in 0 .. 2 :
                      c[3 - k] = IF k < Width(n) THEN Digit(n, k) ELSE " "

\* C10 as amended: up to 999 the content is the number right-aligned in
\* three columns and one space; from 1000 to 9999 its four digits and one
\* space; from 10000 on its first five digits and no space.
C10_GutterText ==
    \A j \in 1 .. Len(atoms) :
        IsGutter(atoms[j]) =>
            LET n == GutterNumber(atoms[j])
                c == atoms[j].content
                w == Width(n)
            IN  /\ Len(c) = IF n <= 999 THEN 4 ELSE 5
                /\ n <= 999 =>
                      /\ c[4] = " "
                      /\ \A k \in 0 .. 2 :
                            c[3 - k] = IF k < w THEN Digit(n, k) ELSE " "
                /\ (1000 <= n /\ n <= 9999) =>
                      /\ c[5] = " "
                      /\ \A k \in 0 .. 3 : c[4 - k] = Digit(n, k)
                /\ n >= 10000 =>
                      \A i \in 1 .. 5 : c[i] = Digit(n, w - i)

\* Gutter atoms are there for a line below 1000, one from 1000 to 9999 and
\* one from 10000 on.
C10_Witness ==
    \E i, j \in 1 .. Len(atoms) :
        /\ IsGutter(atoms[i]) /\ IsGutter(atoms[j])
        /\ GutterNumber(atoms[i]) = 9999
        /\ GutterNumber(atoms[j]) = 10000

----------------------------------------------------------------------------
(* The iterator split returns *)

\* The atom the cursor is on after split(atom i, pos).
SplitResult(i, pos) ==
    LET c == split(Cursor(atoms, i), pos) IN c.atoms[c.it]

\* The for loop of colorize_regex is at a match it will colour.
Colouring ==
    /\ pc = "colorize_regex"
    /\ loc.mi <= Len(loc.matches)
    /\ atom_containing(atoms, loc.matches[loc.mi].begin, loc.atom_it)
         = atom_containing(atoms, loc.matches[loc.mi].end, loc.atom_it)
    /\ atom_containing(atoms, loc.matches[loc.mi].begin, loc.atom_it)
         # End(atoms)

\* The inner loop of expand_tabulations is at a tab.
AtTab ==
    /\ pc = "expand_tabulations"
    /\ loc.atom_it # End(atoms)
    /\ loc.it # atoms[loc.atom_it].end
    /\ CharAt(loc.it) = "\t"

\* The while loop of SelectionsHighlighter is at an atom it will split: one
\* of the cases [###------], [---###---], [------###].
Splitting ==
    /\ pc = "highlight_selections"
    /\ loc.atom_it # End(atoms)
    /\ loc.sel_it <= Len(loc.sorted)
    /\ LET atom == atoms[loc.atom_it]
           sel == loc.sorted[loc.sel_it]
       IN  \/ atom.begin >= sel.begin /\ atom.begin < sel.end
              /\ atom.end > sel.end
           \/ atom.begin < sel.begin /\ atom.end > sel.end
           \/ atom.begin < sel.begin /\ atom.end > sel.begin

\* The atoms of as within [lo, hi) that carry Underline.
UnderlinedIn(as, lo, hi) ==
    {p \in lo .. hi - 1 : Underlined(as, p)}

----------------------------------------------------------------------------
(* The preconditions of split, and the assertion of the sweep *)

\* C12: no split of SelectionsHighlighter is refused: whatever the
\* selections, empty ones included, each split it makes is of a splitable
\* atom at a position strictly inside the atom's range.
C12_HighlightSplitsAllowed ==
    loc.filter = "highlight_selections" => fail # "split"

\* C13: the sweep never reaches its assert(false): every atom with
\* begin <= end, zero-width ones included, and every selection with
\* begin <= end stand in one of the six relations the loop tests (all the
\* pairs over the positions of a text are tried once, before its first
\* filter runs).
C13_SixCasesExhaustive ==
    /\ fail # "assert"
    /\ passes = 0 =>
          \A ab, ae, sb, se \in 0 .. Len(text) :
              (ab <= ae /\ sb <= se) =>
                  HighlightAtom(<<DisplayAtom(ab, ae, "Default", "Default")>>,
                                1, [begin |-> sb, end |-> se]).cur.fail
                      # "assert"

\* The sweep has run over a buffer that begins with a gutter atom, which lay
\* before the selection, and has underlined an atom.
C13_Witness ==
    /\ HighlightDone
    /\ atoms[1].begin = atoms[1].end
    /\ Len(sels) = 1
    /\ atoms[1].begin < sels[1].begin
    /\ \E j \in 1 .. Len(atoms) : Underline \in atoms[j].attribute

----------------------------------------------------------------------------
(* Termination *)

\* The while loop of SelectionsHighlighter is about to take a turn.
Sweeping ==
    /\ pc = "highlight_selections"
    /\ loc.atom_it # End(atoms)
    /\ loc.sel_it <= Len(loc.sorted)

C15_FilterSplitsAllowed ==
    loc.filter \in {"colorize_regex", "expand_tabulations",
                    "show_line_numbers"} => fail # "split"

\* colorize_regex has split an atom of a buffer that holds a gutter atom and
\* a tab that expand_tabulations cut out of an atom.
C15_Witness ==
    /\ ColorizeDone
    /\ Len(atoms) > Len(before)
    /\ ZeroWidth(before) # <<>>
    /\ \E j \in 1 .. Len(before) :
          before[j].begin < before[j].end /\ before[j].replaced

----------------------------------------------------------------------------
(* Zero-width atoms under the sweep *)

\* C16: SelectionsHighlighter gives Underline only inside a selection's
\* half-open range: a covered position gets it only if a selection holds the
\* position, and a zero-width atom at position p gets it only if
\* sb <= p < se for some selection, so not the gutter atom at a selection's
\* end that no other selection covers.
C16_UnderlineInsideOnly ==
    loc.filter = "highlight_selections" =>
        /\ \A p \in Covered(before) :
              (Underlined(atoms, p) /\ ~Underlined(before, p)) =>
                  Selected(sels, p)
        /\ \A k \in 1 .. Len(ZeroWidth(atoms)) :
              ( /\ Underline \in ZeroWidth(atoms)[k].attribute
                /\ Underline \notin ZeroWidth(before)[k].attribute )
              => Selected(sels, ZeroWidth(atoms)[k].begin)

----------------------------------------------------------------------------
(* Content overrides *)

\* The atom carries a content and is a gutter atom or the atom of one tab.
TabOrGutter(atom) ==
    \/ atom.begin = atom.end
    \/ atom.end = atom.begin + 1 /\ CharAt(atom.begin) = "\t"

\* C17: whatever filters run in whatever order, an atom with a content
\* override is a zero-width gutter atom or the one-character atom of a tab,
\* so no split is ever of such an atom, and every step leaves each atom with
\* a content override its range.
C17_OverridesKeepRange ==
    /\ [](\A j \in 1 .. Len(atoms) : atoms[j].replaced => TabOrGutter(atoms[j]))
    /\ [][\A j \in 1 .. Len(atoms) :
            atoms[j].replaced =>
                \E k \in 1 .. Len(atoms') :
                    /\ atoms'[k].replaced
                    /\ atoms'[k].begin = atoms[j].begin
                    /\ atoms'[k].end = atoms[j].end]_vars

\* expand_tabulations has gone over a buffer that holds the gutter atoms of
\* show_line_numbers and has a tab alone in its atom.
C17_Witness ==
    /\ TabsDone
    /\ \E j \in 1 .. Len(before) :
          before[j].begin = before[j].end /\ before[j].replaced
    /\ \E j \in 1 .. Len(atoms) :
          atoms[j].begin < atoms[j].end /\ atoms[j].replaced

\* Every tab that as covers is alone in an atom rendered as the spaces
\* expand_tabulations counts for it.
Expanded(as) ==
    \A p \in Covered(as) :
        CharAt(p) = "\t" => TabShown(as, p, TabCount(p))

\* C18: what expand_tabulations leaves has every tab expanded, and a run of
\* it on such a buffer splits nothing and changes nothing: at every step and
\* when it is done the atoms, with their ranges, styles and contents, are the
\* ones it was called with.
C18_TabsIdempotent ==
    /\ TabsDone => Expanded(atoms)
    /\ (loc.filter = "expand_tabulations" /\ Expanded(before)) =>
          /\ atoms = before
          /\ fail = "none"

\* expand_tabulations has run again over its own output, in which the second
\* tab of a line is alone in an atom cut out of a longer one.
C18_Witness ==
    /\ TabsDone
    /\ Expanded(before)
    /\ \E p, q \in Covered(before) :
          /\ p < q
          /\ LineStart(p) = LineStart(q)
          /\ CharAt(p) = "\t" /\ CharAt(q) = "\t"
    /\ \E p \in Covered(before) : CharAt(p) = "a"

====
